---- MODULE Spec2Model ----
(***************************************************************************)
(* Employee-record manager (src/app/app.ts): the App component's signals,  *)
(* its reactive form, the localStorage item it mirrors the record list to, *)
(* and one action per handler of the component.                            *)
(*                                                                         *)
(* JavaScript values are tagged records, so that values of different       *)
(* types can be compared; a JavaScript string is a sequence of characters. *)
(* The text stored in localStorage is a sequence of JSON tokens.           *)
(***************************************************************************)
EXTENDS Integers, Sequences, FiniteSets, TLC

----------------------------------------------------------------------------
(* Bounds *)

\* most records the list is allowed to grow to by addEmployee
MaxLen == 2
\* most staged documents onDocsSelected is allowed to build up
MaxDocs == 2
\* most FileReader reads in flight at once
MaxPending == 1
\* most FileReader reads in flight at once where only the draft is followed
MaxPendingDraft == 2

----------------------------------------------------------------------------
(* JavaScript values *)

Null == [t |-> "null"]
Undefined == [t |-> "undefined"]
Bool(b) == [t |-> "boolean", b |-> b]
Num(n) == [t |-> "number", n |-> n]
Str(s) == [t |-> "string", s |-> s]
Arr(items) == [t |-> "array", items |-> items]
\* an object keeps its keys in insertion order
Obj(keys, get) == [t |-> "object", keys |-> keys, get |-> get]

Range(s) == {s[i] : i \in 1..Len(s)}

\* obj[key]: undefined for a key the object does not have
Get(obj, key) ==
    IF obj.t = "object" /\ key \in Range(obj.keys) THEN obj.get[key] ELSE Undefined

\* a ?? b
Coalesce(a, b) == IF a = Null \/ a = Undefined THEN b ELSE a

\* !v
Falsy(v) ==
    \/ v = Null
    \/ v = Undefined
    \/ (v.t = "boolean" /\ ~v.b)
    \/ (v.t = "number" /\ v.n = 0)
    \/ (v.t = "string" /\ v.s = <<>>)

\* list[index]: undefined outside the array
At(list, index) ==
    IF index >= 0 /\ index < Len(list) THEN list[index + 1] ELSE Undefined

----------------------------------------------------------------------------
(* JSON text: JSON.stringify and JSON.parse *)

Punct(c) == [k |-> "punct", c |-> c]
TLit(w) == [k |-> "literal", w |-> w]
TNum(n) == [k |-> "number", n |-> n]
TStr(s) == [k |-> "string", s |-> s]
\* a member name with its colon
TKey(name) == [k |-> "key", name |-> name]
\* text that is no JSON token
TGarbage == [k |-> "garbage"]

RECURSIVE Stringify(_)
RECURSIVE StringifyItems(_, _)
RECURSIVE StringifyMembers(_, _, _)

\* the elements from position i on, comma separated; a hole or undefined
\* element is written as null
StringifyItems(items, i) ==
    IF i > Len(items) THEN <<>>
    ELSE (IF i > 1 THEN <<Punct(",")>> ELSE <<>>)
         \o (IF items[i] = Undefined THEN <<TLit("null")>> ELSE Stringify(items[i]))
         \o StringifyItems(items, i + 1)

\* the members from key i on; a member whose value is undefined is left out
StringifyMembers(obj, i, first) ==
    IF i > Len(obj.keys) THEN <<>>
    ELSE LET key == obj.keys[i]
             val == obj.get[key]
         IN IF val = Undefined THEN StringifyMembers(obj, i + 1, first)
            ELSE (IF first THEN <<>> ELSE <<Punct(",")>>)
                 \o <<TKey(key)>> \o Stringify(val)
                 \o StringifyMembers(obj, i + 1, FALSE)

Stringify(v) ==
    CASE v.t = "null" -> <<TLit("null")>>
      [] v.t = "boolean" -> <<TLit(IF v.b THEN "true" ELSE "false")>>
      [] v.t = "number" -> <<TNum(v.n)>>
      [] v.t = "string" -> <<TStr(v.s)>>
      [] v.t = "array" -> <<Punct("[")>> \o StringifyItems(v.items, 1) \o <<Punct("]")>>
      [] v.t = "object" -> <<Punct("{")>> \o StringifyMembers(v, 1, TRUE) \o <<Punct("}")>>

\* result of parsing a prefix of a token sequence
ParseOk(val, rest) == [ok |-> TRUE, val |-> val, rest |-> rest]
ParseFail == [ok |-> FALSE, val |-> Undefined, rest |-> <<>>]

IsPunct(toks, c) == toks # <<>> /\ Head(toks).k = "punct" /\ Head(toks).c = c

\* obj with key set to val: a repeated key keeps its place and takes the last value
PutMember(obj, key, val) ==
    IF key \in Range(obj.keys)
    THEN Obj(obj.keys, [obj.get EXCEPT ![key] = val])
    ELSE Obj(Append(obj.keys, key),
             [x \in Range(obj.keys) \cup {key} |-> IF x = key THEN val ELSE obj.get[x]])

RECURSIVE ParseValue(_)
RECURSIVE ParseItems(_, _)
RECURSIVE ParseMembers(_, _)

\* toks starts at an element; acc holds the elements read so far
ParseItems(toks, acc) ==
    LET r == ParseValue(toks)
    IN IF ~r.ok THEN ParseFail
       ELSE IF IsPunct(r.rest, ",") THEN ParseItems(Tail(r.rest), Append(acc, r.val))
       ELSE IF IsPunct(r.rest, "]") THEN ParseOk(Arr(Append(acc, r.val)), Tail(r.rest))
       ELSE ParseFail

\* toks starts at a member name; acc is the object read so far
ParseMembers(toks, acc) ==
    IF toks = <<>> \/ Head(toks).k # "key" THEN ParseFail
    ELSE LET r == ParseValue(Tail(toks))
         IN IF ~r.ok THEN ParseFail
            ELSE LET obj == PutMember(acc, Head(toks).name, r.val)
                 IN IF IsPunct(r.rest, ",") THEN ParseMembers(Tail(r.rest), obj)
                    ELSE IF IsPunct(r.rest, "}") THEN ParseOk(obj, Tail(r.rest))
                    ELSE ParseFail

ParseValue(toks) ==
    IF toks = <<>> THEN ParseFail
    ELSE LET h == Head(toks)
         IN CASE h.k = "literal" /\ h.w = "null" -> ParseOk(Null, Tail(toks))
              [] h.k = "literal" /\ h.w \in {"true", "false"} ->
                    ParseOk(Bool(h.w = "true"), Tail(toks))
              [] h.k = "number" -> ParseOk(Num(h.n), Tail(toks))
              [] h.k = "string" -> ParseOk(Str(h.s), Tail(toks))
              [] IsPunct(toks, "[") ->
                    IF IsPunct(Tail(toks), "]")
                    THEN ParseOk(Arr(<<>>), Tail(Tail(toks)))
                    ELSE ParseItems(Tail(toks), <<>>)
              [] IsPunct(toks, "{") ->
                    IF IsPunct(Tail(toks), "}")
                    THEN ParseOk(Obj(<<>>, <<>>), Tail(Tail(toks)))
                    ELSE ParseMembers(Tail(toks), Obj(<<>>, <<>>))
              [] OTHER -> ParseFail

\* JSON.parse(text): ok is FALSE where JSON.parse throws a SyntaxError
JSONParse(toks) ==
    LET r == ParseValue(toks)
    IN IF r.ok /\ r.rest = <<>> THEN r ELSE ParseFail

----------------------------------------------------------------------------
(* Array primitives used by the handlers *)

\* faulty variant of SpliceOne: list.splice(index), the count left out, removes the rest
SpliceOne_noCount(list, index) ==
    LET n == Len(list)
        start == IF index < 0 THEN (IF n + index < 0 THEN 0 ELSE n + index)
                 ELSE (IF index > n THEN n ELSE index)
    IN [j \in 1..start |-> list[j]]

\* list.splice(index, 1) on a copy: a negative index counts from the end, an
\* index at or past the end removes nothing
SpliceOne(list, index) ==
    LET n == Len(list)
        start == IF index < 0 THEN (IF n + index < 0 THEN 0 ELSE n + index)
                 ELSE (IF index > n THEN n ELSE index)
    IN IF start >= n THEN list
       ELSE [j \in 1..(n - 1) |-> IF j <= start THEN list[j] ELSE list[j + 1]]

\* list[idx] = value on a copy, idx >= 0: an index past the end grows the
\* array and leaves holes (read as undefined) in between
AssignAt(list, idx, value) ==
    LET n == IF idx + 1 > Len(list) THEN idx + 1 ELSE Len(list)
    IN [j \in 1..n |-> IF j = idx + 1 THEN value
                       ELSE IF j <= Len(list) THEN list[j] ELSE Undefined]

\* faulty variant of Prepend: [...list, employee]
Prepend_atEnd(employee, list) == list \o <<employee>>

\* [employee, ...list]
Prepend(employee, list) == <<employee>> \o list

----------------------------------------------------------------------------
(* The reactive form and its validators *)

FormFields ==
    <<"name", "phone", "email", "nid", "dob", "address", "qualification",
      "religion", "experience", "lastWorkPlace", "salary">>

NameMaxLength == 100
NidMaxLength == 30
AddressMaxLength == 250
QualificationMaxLength == 120
PhoneMinDigits == 10
PhoneMaxDigits == 15

Digits == {"0", "1", "2", "3", "4", "5", "6", "7", "8", "9"}

\* the values form.reset() is given by resetForm, and the form's initial values
DefaultValues ==
    [f \in Range(FormFields) |->
        IF f \in {"experience", "salary"} THEN Num(0) ELSE Str(<<>>)]

\* what the validators treat as "no value"
IsEmptyInput(v) ==
    v = Null \/ v = Undefined \/ (v.t = "string" /\ v.s = <<>>)

\* Validators.required
RequiredError(v) == IsEmptyInput(v)

\* Validators.maxLength(n)
MaxLengthError(v, n) == v.t = "string" /\ Len(v.s) > n

\* faulty variant of MatchesPhonePattern: /^\d{1,15}$/
MatchesPhonePattern_noMin(s) ==
    /\ Len(s) >= 1
    /\ Len(s) <= PhoneMaxDigits
    /\ \A i \in 1..Len(s) : s[i] \in Digits

\* /^\d{10,15}$/
MatchesPhonePattern(s) ==
    /\ Len(s) >= PhoneMinDigits
    /\ Len(s) <= PhoneMaxDigits
    /\ \A i \in 1..Len(s) : s[i] \in Digits

\* Validators.pattern(/^\d{10,15}$/)
PhonePatternError(v) ==
    /\ ~IsEmptyInput(v)
    /\ ~(v.t = "string" /\ MatchesPhonePattern(v.s))

\* Validators.email: one "@" with a non-empty local part and domain, no blanks
EmailError(v) ==
    /\ ~IsEmptyInput(v)
    /\ ~(/\ v.t = "string"
         /\ Cardinality({i \in 1..Len(v.s) : v.s[i] = "@"}) = 1
         /\ v.s[1] # "@"
         /\ v.s[Len(v.s)] # "@"
         /\ \A i \in 1..Len(v.s) : v.s[i] # " ")

\* faulty variant of MinError: the minimum is never enforced
MinError_off(v) == FALSE

\* Validators.min(0)
MinError(v) == ~IsEmptyInput(v) /\ v.t = "number" /\ v.n < 0

\* the violated rules of a form value, as <<field, rule>> pairs
Errors(fv) ==
    {<<f, "required">> :
        f \in {g \in {"name", "phone", "nid", "dob", "address", "qualification"} :
                  RequiredError(fv.get[g])}}
    \cup (IF MaxLengthError(fv.get["name"], NameMaxLength)
          THEN {<<"name", "maxlength">>} ELSE {})
    \cup (IF PhonePatternError(fv.get["phone"])
          THEN {<<"phone", "pattern">>} ELSE {})
    \cup (IF EmailError(fv.get["email"])
          THEN {<<"email", "email">>} ELSE {})
    \cup (IF MaxLengthError(fv.get["nid"], NidMaxLength)
          THEN {<<"nid", "maxlength">>} ELSE {})
    \cup (IF MaxLengthError(fv.get["address"], AddressMaxLength)
          THEN {<<"address", "maxlength">>} ELSE {})
    \cup (IF MaxLengthError(fv.get["qualification"], QualificationMaxLength)
          THEN {<<"qualification", "maxlength">>} ELSE {})
    \cup (IF MinError(fv.get["experience"])
          THEN {<<"experience", "min">>} ELSE {})
    \cup (IF MinError(fv.get["salary"])
          THEN {<<"salary", "min">>} ELSE {})

\* this.form.invalid
FormInvalid(fv) == Errors(fv) # {}

\* { ...this.form.value, photoDataUrl: this.photoPreview(), documents: this.docs() }
BuildEmployee(fv, photo, documents) ==
    PutMember(PutMember(fv, "photoDataUrl", photo), "documents", Arr(documents))

----------------------------------------------------------------------------
(* formatBytes *)

(***************************************************************************)
(* A byte count is the sequence of its base-1024 digits, lowest first and  *)
(* without a leading zero (0 is the empty sequence), so that counts up to  *)
(* 2^53 are within reach. Dividing a count below 2^53 by a power of 1024   *)
(* is exact in a double, and toFixed rounds the exact value half up.       *)
(***************************************************************************)

\* const k = 1024
Kilo == 1024

\* const sizes = ['B', 'KB', 'MB', 'GB', 'TB']
sizes == <<<<"B">>, <<"K", "B">>, <<"M", "B">>, <<"G", "B">>, <<"T", "B">>>>

\* Math.floor(Math.log(bytes) / Math.log(k)) for bytes > 0: the position of
\* the highest digit. (The quotient of the two double logarithms has this
\* floor for the byte counts drawn below; the counts within 3 of 1024^5,
\* where the logarithm rounds up to that of 1024^5, are not among them.)
LogFloor(bytes) == Len(bytes) - 1

RECURSIVE TenthsBelow(_, _)
\* floor(10 * r / 1024^j), r the number made of the j lowest digits
TenthsBelow(bytes, j) ==
    IF j = 0 THEN 0 ELSE (10 * bytes[j] + TenthsBelow(bytes, j - 1)) \div Kilo

\* faulty variant of Rounded: the digits after the last one shown are cut off
Rounded_truncates(bytes, i, d) ==
    IF d = 0 THEN bytes[i + 1] ELSE 10 * bytes[i + 1] + TenthsBelow(bytes, i)

\* val = bytes / 1024^i in units of 10^-d, rounded half up as toFixed(d) does
Rounded(bytes, i, d) ==
    IF d = 0
    THEN bytes[i + 1] + (IF i >= 1 /\ bytes[i] >= Kilo \div 2 THEN 1 ELSE 0)
    ELSE 10 * bytes[i + 1]
         + (10 * bytes[i] + Kilo \div 2 + TenthsBelow(bytes, i - 1)) \div Kilo

DigitChar(n) == <<"0", "1", "2", "3", "4", "5", "6", "7", "8", "9">>[n + 1]

RECURSIVE NumberText(_)
\* the decimal digits of a natural number
NumberText(n) ==
    IF n < 10 THEN <<DigitChar(n)>>
    ELSE NumberText(n \div 10) \o <<DigitChar(n % 10)>>

\* the text toFixed(d) gives for the value r * 10^-d, d being 0 or 1
ToFixedText(r, d) ==
    IF d = 0 THEN NumberText(r)
    ELSE NumberText(r \div 10) \o <<".">> \o <<DigitChar(r % 10)>>

\* sizes[i], and `${undefined}` past the end of the array
UnitText(i) ==
    IF i + 1 <= Len(sizes) THEN sizes[i + 1]
    ELSE <<"u", "n", "d", "e", "f", "i", "n", "e", "d">>

formatBytes(bytes) ==
    IF bytes = <<>> THEN <<"0", " ", "B">>
    ELSE LET i == LogFloor(bytes)
             d == IF bytes[i + 1] >= 10 \/ i = 0 THEN 0 ELSE 1
         IN ToFixedText(Rounded(bytes, i, d), d) \o <<" ">> \o UnitText(i)

----------------------------------------------------------------------------
(* Inputs *)

JaneDoe == <<"J", "a", "n", "e", " ", "D", "o", "e">>
Phone5 == <<"1", "2", "3", "4", "5">>
Phone10 == <<"1", "2", "3", "4", "5", "6", "7", "8", "9", "0">>
PhoneAlpha == <<"1", "2", "3", "4", "5", "6", "7", "8", "9", "x">>

\* a complete, valid entry of the required fields
ValidEntry ==
    [name |-> Str(JaneDoe), phone |-> Str(Phone10), nid |-> Str(<<"7">>),
     dob |-> Str(<<"2", "0", "0", "0", "-", "0", "1", "-", "0", "1">>),
     address |-> Str(<<"D", "h", "a", "k", "a">>),
     qualification |-> Str(<<"B", "S", "c">>), salary |-> Num(0)]

\* what the user types into the form controls (field values to overwrite): the
\* valid entry, the same with a phone number that is too short or no number,
\* and the same with a negative salary
UserEntries ==
    {ValidEntry,
     [ValidEntry EXCEPT !.phone = Str(Phone5)],
     [ValidEntry EXCEPT !.phone = Str(PhoneAlpha)],
     [ValidEntry EXCEPT !.salary = Num(-1)]}

\* the data URLs a FileReader yields for the image files of the model
PhotoA == Str(<<"d", "a", "t", "a", ":", "A">>)
PhotoB == Str(<<"d", "a", "t", "a", ":", "B">>)
PhotoFiles == {PhotoA}
PhotoFilesDraft == {PhotoA, PhotoB}

\* the File objects of the documents input
CvUpload ==
    Obj(<<"name", "size", "type">>,
        [name |-> Str(<<"c", "v", ".", "p", "d", "f">>), size |-> Num(1536),
         type |-> Str(<<"p", "d", "f">>)])
IdUpload ==
    Obj(<<"name", "size", "type">>,
        [name |-> Str(<<"i", "d", ".", "p", "n", "g">>), size |-> Num(10485760),
         type |-> Str(<<"p", "n", "g">>)])

\* the (name, size) descriptor of cv.pdf
CvFile ==
    Obj(<<"name", "size">>,
        [name |-> Str(<<"c", "v", ".", "p", "d", "f">>), size |-> Num(1536)])

\* input.files of the documents input: nothing selected, or one file
DocSelections == {<<>>, <<CvUpload>>}
\* the same, and a selection of two files
DocSelectionsDraft == DocSelections \cup {<<IdUpload, CvUpload>>}

\* the byte counts formatBytes is followed on: the highest digit, the digit
\* below it, and the lowest digit, each from a few values at and next to the
\* places where the unit, the number of decimals or the rounding changes
TopDigits == {1, 9, 10, 1023}
NextDigits == {0, 1, 51, 52, 512, 973, 1023}
LowDigits == {0, 1023}

\* the count is an integer a double holds exactly, as File.size is
IsSafeInteger(bytes) == Len(bytes) <= 5 \/ (Len(bytes) = 6 /\ bytes[6] < 8)

ByteInputs ==
    {b \in {<<>>}
           \cup {<<t>> : t \in TopDigits}
           \cup {<<s, t>> : s \in NextDigits, t \in TopDigits}
           \cup UNION {{[j \in 1..(i + 1) |->
                            IF j = i + 1 THEN t
                            ELSE IF j = i THEN s
                            ELSE IF j = 1 THEN l ELSE 0] :
                          l \in LowDigits, s \in NextDigits, t \in TopDigits} :
                       i \in 2..Len(sizes)} :
        IsSafeInteger(b)}

\* a record written by an earlier session: the optional members and the
\* documents are null or absent
StoredRecord ==
    Obj(<<"name", "phone", "email", "nid", "dob", "address", "qualification",
          "experience", "salary">>,
        [name |-> ValidEntry.name, phone |-> ValidEntry.phone, email |-> Null,
         nid |-> ValidEntry.nid, dob |-> ValidEntry.dob,
         address |-> ValidEntry.address, qualification |-> ValidEntry.qualification,
         experience |-> Num(0), salary |-> Num(0)])

\* a record in storage that this form would not have accepted: loadEmployees
\* takes whatever array the item holds
NegativeRecord ==
    PutMember(PutMember(StoredRecord, "experience", Num(-2)), "documents", Arr(<<>>))

\* localStorage.getItem: null for a missing key, else the stored text
Text(toks) == [t |-> "string", toks |-> toks]

\* stored values loadEmployees falls back on: no item, the empty string, text
\* that is not JSON, truncated JSON, and JSON that is not an array
UnusableStored ==
    {Null,
     Text(<<>>),
     Text(<<TGarbage>>),
     Text(<<Punct("["), TNum(1)>>),
     Text(<<TNum(5)>>),
     Text(<<TLit("null")>>),
     Text(<<TLit("true")>>),
     Text(Stringify(Obj(<<"name">>, [name |-> Str(JaneDoe)])))}

\* what localStorage may hold under LS_KEY when the page is opened
InitialStored ==
    UnusableStored
    \cup {Text(Stringify(Arr(<<>>))),
          Text(Stringify(Arr(<<StoredRecord>>))),
          Text(Stringify(Arr(<<NegativeRecord>>)))}

----------------------------------------------------------------------------
(* State *)

VARIABLES
    pc,            \* "constructed" until ngOnInit has run, then "ready"
    form,          \* this.form.value (undefined before ngOnInit)
    touched,       \* the form controls marked as touched
    employees,     \* this.employees()
    editingIndex,  \* this.editingIndex()
    photoPreview,  \* this.photoPreview()
    docs,          \* this.docs()
    reads,         \* FileReader reads in flight: their results, in start order
    storage,       \* localStorage.getItem(LS_KEY)
    raised,        \* the last handler threw
    lastOp,        \* history: the last handler, if it changed the record list,
                   \* replaced the draft or was a read's completion ahead of
                   \* an earlier read; "none" after any other handler call
    persisted,     \* history: the list given to the last saveEmployees
    editTarget,    \* history: the record editEmployee loaded into the draft
    sizeView       \* a byte count and the text formatBytes made of it, where
                   \* formatBytes is followed on its own; undefined elsewhere

vars ==
    <<pc, form, touched, employees, editingIndex, photoPreview, docs, reads,
      storage, raised, lastOp, persisted, editTarget, sizeView>>

\* this.isEditing()
isEditing == editingIndex # Null

Init ==
    /\ pc = "constructed"
    /\ form = Undefined
    /\ touched = {}
    /\ employees = <<>>
    /\ editingIndex = Null
    /\ photoPreview = Null
    /\ docs = <<>>
    /\ reads = <<>>
    /\ storage \in InitialStored
    /\ raised = FALSE
    /\ lastOp = "constructor"
    /\ persisted = Undefined
    /\ editTarget = Undefined
    /\ sizeView = Undefined

----------------------------------------------------------------------------
(* Persistence *)

\* faulty variant of LoadEmployees: JSON.parse outside a try block
LoadEmployees_noCatch(raw) ==
    IF raw = Null \/ raw.toks = <<>>
    THEN [employees |-> <<>>, raised |-> FALSE]
    ELSE LET r == JSONParse(raw.toks)
         IN IF ~r.ok THEN [employees |-> <<>>, raised |-> TRUE]
            ELSE [employees |-> IF r.val.t = "array" THEN r.val.items ELSE <<>>,
                  raised |-> FALSE]

\* loadEmployees: the list it sets, and whether it throws
LoadEmployees(raw) ==
    IF raw = Null \/ raw.toks = <<>>
    THEN [employees |-> <<>>, raised |-> FALSE]
    ELSE LET r == JSONParse(raw.toks)
         IN IF ~r.ok THEN [employees |-> <<>>, raised |-> FALSE]
            ELSE [employees |-> IF r.val.t = "array" THEN r.val.items ELSE <<>>,
                  raised |-> FALSE]

\* faulty variant of SaveEmployees: JSON.stringify(this.employees), the signal itself,
\* is undefined, and setItem stores the text "undefined"
SaveEmployees_uncalledSignal(list) == Text(<<TGarbage>>)

\* saveEmployees: the text written under LS_KEY
SaveEmployees(list) == Text(Stringify(Arr(list)))

----------------------------------------------------------------------------
(* Handlers *)

\* form.reset(values): the values are set, every control is untouched again
ResetFormTo(values) ==
    /\ form' = Obj(FormFields, values)
    /\ touched' = {}

\* faulty variant of resetForm: the staged photo and documents are kept
resetForm_keepsStaged ==
    /\ ResetFormTo(DefaultValues)
    /\ editingIndex' = Null
    /\ editTarget' = Undefined
    /\ UNCHANGED <<photoPreview, docs>>

\* resetForm: the form and the three draft signals go back to "new record"
resetForm ==
    /\ ResetFormTo(DefaultValues)
    /\ photoPreview' = Null
    /\ docs' = <<>>
    /\ editingIndex' = Null
    /\ editTarget' = Undefined

\* ngOnInit: builds the form group and loads the stored list
NgOnInit ==
    /\ pc = "constructed"
    /\ UNCHANGED sizeView
    /\ pc' = "ready"
    /\ form' = Obj(FormFields, DefaultValues)
    /\ employees' = LoadEmployees(storage).employees
    /\ raised' = LoadEmployees(storage).raised
    /\ lastOp' = "ngOnInit"
    /\ UNCHANGED <<touched, editingIndex, photoPreview, docs, reads, storage, persisted,
                   editTarget>>

\* the user edits form controls
UserInput(entry) ==
    /\ pc = "ready"
    /\ UNCHANGED sizeView
    /\ form' = Obj(FormFields,
                   [f \in Range(FormFields) |->
                       IF f \in DOMAIN entry THEN entry[f] ELSE form.get[f]])
    /\ raised' = FALSE
    /\ lastOp' = "none"
    /\ UNCHANGED <<pc, touched, employees, editingIndex, photoPreview, docs, reads,
                   storage, persisted, editTarget>>

\* onPhotoSelected: without a file nothing happens, else a read is started
OnPhotoSelected(files) ==
    /\ pc = "ready"
    /\ UNCHANGED sizeView
    /\ IF files = <<>>
       THEN UNCHANGED reads
       ELSE reads' = Append(reads, files[1])
    /\ raised' = FALSE
    /\ lastOp' = "none"
    /\ UNCHANGED <<pc, form, touched, employees, editingIndex, photoPreview, docs,
                   storage, persisted, editTarget>>

\* faulty variant of PhotoLoaded: the result of a read is dropped when a read
\* started later is still in flight
PhotoLoaded_latestOnly(i) ==
    /\ pc = "ready"
    /\ UNCHANGED sizeView
    /\ i \in 1..Len(reads)
    /\ photoPreview' = IF i = Len(reads) THEN reads[i] ELSE photoPreview
    /\ reads' = [j \in 1..(Len(reads) - 1) |-> IF j < i THEN reads[j] ELSE reads[j + 1]]
    /\ raised' = FALSE
    /\ lastOp' = IF i > 1 THEN "onload:overtaking" ELSE "none"
    /\ UNCHANGED <<pc, form, touched, employees, editingIndex, docs, storage, persisted,
                   editTarget>>

\* reader.onload of the i-th read in flight
PhotoLoaded(i) ==
    /\ pc = "ready"
    /\ UNCHANGED sizeView
    /\ i \in 1..Len(reads)
    /\ photoPreview' = reads[i]
    /\ reads' = [j \in 1..(Len(reads) - 1) |-> IF j < i THEN reads[j] ELSE reads[j + 1]]
    /\ raised' = FALSE
    /\ lastOp' = IF i > 1 THEN "onload:overtaking" ELSE "none"
    /\ UNCHANGED <<pc, form, touched, employees, editingIndex, docs, storage, persisted,
                   editTarget>>

removePhoto ==
    /\ pc = "ready"
    /\ UNCHANGED sizeView
    /\ photoPreview' = Null
    /\ raised' = FALSE
    /\ lastOp' = "none"
    /\ UNCHANGED <<pc, form, touched, employees, editingIndex, docs, reads, storage,
                   persisted, editTarget>>

\* { name: f.name, size: f.size }
DocInfoOf(f) ==
    Obj(<<"name", "size">>, [name |-> Get(f, "name"), size |-> Get(f, "size")])

\* faulty variant of OnDocsSelected: a file whose name is staged already is
\* left out
OnDocsSelected_dedupes(files) ==
    /\ pc = "ready"
    /\ UNCHANGED sizeView
    /\ IF files = <<>>
       THEN UNCHANGED docs
       ELSE /\ Len(docs) + Len(files) <= MaxDocs
            /\ docs' = docs \o SelectSeq([j \in 1..Len(files) |-> DocInfoOf(files[j])],
                                        LAMBDA d : d \notin Range(docs))
    /\ raised' = FALSE
    /\ lastOp' = "none"
    /\ UNCHANGED <<pc, form, touched, employees, editingIndex, photoPreview, reads,
                   storage, persisted, editTarget>>

\* onDocsSelected: the selected files' descriptors are appended to the staged list
OnDocsSelected(files) ==
    /\ pc = "ready"
    /\ UNCHANGED sizeView
    /\ IF files = <<>>
       THEN UNCHANGED docs
       ELSE /\ Len(docs) + Len(files) <= MaxDocs
            /\ docs' = docs \o [j \in 1..Len(files) |-> DocInfoOf(files[j])]
    /\ raised' = FALSE
    /\ lastOp' = "none"
    /\ UNCHANGED <<pc, form, touched, employees, editingIndex, photoPreview, reads,
                   storage, persisted, editTarget>>

\* faulty variant of removeDoc: splice on the array the signal holds, which
\* after editEmployee is the documents array of the record under edit
removeDoc_inPlace(index) ==
    /\ pc = "ready"
    /\ UNCHANGED sizeView
    /\ docs' = SpliceOne(docs, index)
    /\ employees' =
          IF /\ editingIndex # Null
             /\ ~Falsy(At(employees, editingIndex.n))
             /\ Get(At(employees, editingIndex.n), "documents") = Arr(docs)
          THEN AssignAt(employees, editingIndex.n,
                        PutMember(At(employees, editingIndex.n), "documents", Arr(docs')))
          ELSE employees
    /\ raised' = FALSE
    /\ lastOp' = "none"
    /\ UNCHANGED <<pc, form, touched, editingIndex, photoPreview, reads, storage,
                   persisted, editTarget>>

\* removeDoc: the entry at index is taken out of a copy of the staged list
removeDoc(index) ==
    /\ pc = "ready"
    /\ UNCHANGED sizeView
    /\ docs' = SpliceOne(docs, index)
    /\ raised' = FALSE
    /\ lastOp' = "none"
    /\ UNCHANGED <<pc, form, touched, employees, editingIndex, photoPreview, reads,
                   storage, persisted, editTarget>>

\* faulty variant of Rejected: an invalid submission clears the draft
Rejected_resets ==
    /\ resetForm
    /\ UNCHANGED <<employees, storage, persisted>>

\* a submission of an invalid form: markAllAsTouched, and return
Rejected ==
    /\ touched' = Range(FormFields)
    /\ UNCHANGED <<form, employees, editingIndex, photoPreview, docs, storage, persisted,
                   editTarget>>

addEmployee ==
    /\ pc = "ready"
    /\ UNCHANGED sizeView
    /\ IF FormInvalid(form)
       THEN /\ Rejected
            /\ lastOp' = "none"
       ELSE /\ Len(employees) < MaxLen
            /\ employees' = Prepend(BuildEmployee(form, photoPreview, docs), employees)
            /\ storage' = SaveEmployees(employees')
            /\ persisted' = Arr(employees')
            /\ resetForm
            /\ lastOp' = "addEmployee:accepted"
    /\ raised' = FALSE
    /\ UNCHANGED <<pc, reads>>

updateEmployee ==
    /\ pc = "ready"
    /\ UNCHANGED sizeView
    /\ IF FormInvalid(form)
       THEN /\ Rejected
            /\ lastOp' = "none"
       ELSE IF editingIndex = Null \/ editingIndex.n < 0
       THEN /\ lastOp' = "none"
            /\ UNCHANGED <<form, touched, employees, editingIndex, photoPreview, docs,
                           storage, persisted, editTarget>>
       ELSE /\ employees' = AssignAt(employees, editingIndex.n,
                                     BuildEmployee(form, photoPreview, docs))
            /\ storage' = SaveEmployees(employees')
            /\ persisted' = Arr(employees')
            /\ resetForm
            /\ lastOp' = "updateEmployee:accepted"
    /\ raised' = FALSE
    /\ UNCHANGED <<pc, reads>>

\* faulty variant of editEmployee: email, religion and lastWorkPlace are
\* copied without the default for a missing value
editEmployee_noDefaults(index) ==
    /\ pc = "ready"
    /\ UNCHANGED sizeView
    /\ LET emp == At(employees, index)
       IN IF Falsy(emp)
          THEN /\ lastOp' = "none"
               /\ UNCHANGED <<form, touched, editingIndex, photoPreview, docs, editTarget>>
          ELSE /\ ResetFormTo(
                    [f \in Range(FormFields) |->
                        Get(emp, f)])
               /\ photoPreview' = Coalesce(Get(emp, "photoDataUrl"), Null)
               /\ docs' = Coalesce(Get(emp, "documents"), Arr(<<>>)).items
               /\ editingIndex' = Num(index)
               /\ editTarget' = emp
               /\ lastOp' = "editEmployee"
    /\ raised' = FALSE
    /\ UNCHANGED <<pc, employees, reads, storage, persisted>>

\* editEmployee: loads the record at index into the draft, if there is one
editEmployee(index) ==
    /\ pc = "ready"
    /\ UNCHANGED sizeView
    /\ LET emp == At(employees, index)
       IN IF Falsy(emp)
          THEN /\ lastOp' = "none"
               /\ UNCHANGED <<form, touched, editingIndex, photoPreview, docs, editTarget>>
          ELSE /\ ResetFormTo(
                    [f \in Range(FormFields) |->
                        IF f \in {"email", "religion", "lastWorkPlace"}
                        THEN Coalesce(Get(emp, f), Str(<<>>))
                        ELSE Get(emp, f)])
               /\ photoPreview' = Coalesce(Get(emp, "photoDataUrl"), Null)
               /\ docs' = Coalesce(Get(emp, "documents"), Arr(<<>>)).items
               /\ editingIndex' = Num(index)
               /\ editTarget' = emp
               /\ lastOp' = "editEmployee"
    /\ raised' = FALSE
    /\ UNCHANGED <<pc, employees, reads, storage, persisted>>

\* faulty variant of deleteEmployee: the call of saveEmployees left out
deleteEmployee_noSave(index) ==
    /\ pc = "ready"
    /\ UNCHANGED sizeView
    /\ employees' = SpliceOne(employees, index)
    /\ IF editingIndex = Num(index)
       THEN resetForm
       ELSE UNCHANGED <<form, touched, photoPreview, docs, editingIndex, editTarget>>
    /\ raised' = FALSE
    /\ lastOp' = "deleteEmployee"
    /\ UNCHANGED <<pc, reads, storage, persisted>>

deleteEmployee(index) ==
    /\ pc = "ready"
    /\ UNCHANGED sizeView
    /\ employees' = SpliceOne(employees, index)
    /\ storage' = SaveEmployees(employees')
    /\ persisted' = Arr(employees')
    /\ IF editingIndex = Num(index)
       THEN resetForm
       ELSE UNCHANGED <<form, touched, photoPreview, docs, editingIndex, editTarget>>
    /\ raised' = FALSE
    /\ lastOp' = "deleteEmployee"
    /\ UNCHANGED <<pc, reads>>

\* the cancel / reset entry point
Cancel ==
    /\ pc = "ready"
    /\ UNCHANGED sizeView
    /\ resetForm
    /\ raised' = FALSE
    /\ lastOp' = "resetForm"
    /\ UNCHANGED <<pc, employees, reads, storage, persisted>>

\* the page is reloaded: a new component is constructed over the same storage
Reload ==
    /\ pc = "ready"
    /\ UNCHANGED sizeView
    /\ pc' = "constructed"
    /\ form' = Undefined
    /\ touched' = {}
    /\ employees' = <<>>
    /\ editingIndex' = Null
    /\ photoPreview' = Null
    /\ docs' = <<>>
    /\ reads' = <<>>
    /\ editTarget' = Undefined
    /\ raised' = FALSE
    /\ lastOp' = "constructor"
    /\ UNCHANGED <<storage, persisted>>

Next ==
    \/ NgOnInit
    \/ \E entry \in UserEntries : UserInput(entry)
    \/ \E files \in {<<>>} \cup {<<p>> : p \in PhotoFiles} :
          (files # <<>> => Len(reads) < MaxPending) /\ OnPhotoSelected(files)
    \/ \E i \in 1..Len(reads) : PhotoLoaded(i)
    \/ removePhoto
    \/ \E files \in DocSelections : OnDocsSelected(files)
    \/ \E index \in 0..(Len(docs) - 1) : removeDoc(index)
    \/ addEmployee
    \/ updateEmployee
    \/ \E index \in 0..(Len(employees) - 1) : editEmployee(index)
    \/ \E index \in 0..(Len(employees) - 1) : deleteEmployee(index)
    \/ Cancel
    \/ Reload

Spec == Init /\ [][Next]_vars

\* addEmployee on a valid form when localStorage.setItem throws: the signal is
\* set, saveEmployees raises, and resetForm is not reached
addEmployeeWriteFails ==
    /\ pc = "ready"
    /\ UNCHANGED sizeView
    /\ ~FormInvalid(form)
    /\ Len(employees) < MaxLen
    /\ employees' = Prepend(BuildEmployee(form, photoPreview, docs), employees)
    /\ raised' = TRUE
    /\ lastOp' = "addEmployee:writeFailed"
    /\ UNCHANGED <<pc, form, touched, editingIndex, photoPreview, docs, reads, storage,
                   persisted, editTarget>>

\* updateEmployee on a valid form with an edit target when setItem throws
updateEmployeeWriteFails ==
    /\ pc = "ready"
    /\ UNCHANGED sizeView
    /\ ~FormInvalid(form)
    /\ editingIndex # Null
    /\ editingIndex.n >= 0
    /\ employees' = AssignAt(employees, editingIndex.n,
                             BuildEmployee(form, photoPreview, docs))
    /\ raised' = TRUE
    /\ lastOp' = "updateEmployee:writeFailed"
    /\ UNCHANGED <<pc, form, touched, editingIndex, photoPreview, docs, reads, storage,
                   persisted, editTarget>>

\* faulty variant of deleteEmployeeWriteFails: the list is written before the
\* signal is set, so that a failed write leaves the signal as it was
deleteEmployeeWriteFails_writesFirst(index) ==
    /\ pc = "ready"
    /\ UNCHANGED sizeView
    /\ raised' = TRUE
    /\ lastOp' = "deleteEmployee:writeFailed"
    /\ UNCHANGED <<pc, form, touched, employees, editingIndex, photoPreview, docs,
                   reads, storage, persisted, editTarget>>

\* deleteEmployee when setItem throws: the reset of the draft is not reached
deleteEmployeeWriteFails(index) ==
    /\ pc = "ready"
    /\ UNCHANGED sizeView
    /\ employees' = SpliceOne(employees, index)
    /\ raised' = TRUE
    /\ lastOp' = "deleteEmployee:writeFailed"
    /\ UNCHANGED <<pc, form, touched, editingIndex, photoPreview, docs, reads, storage,
                   persisted, editTarget>>

\* the handlers that work on the record list, with a localStorage whose
\* setItem may throw
NextQuota ==
    \/ NgOnInit
    \/ \E entry \in UserEntries : UserInput(entry)
    \/ addEmployee
    \/ updateEmployee
    \/ \E index \in 0..(Len(employees) - 1) : editEmployee(index)
    \/ \E index \in 0..(Len(employees) - 1) : deleteEmployee(index)
    \/ Cancel
    \/ Reload
    \/ addEmployeeWriteFails
    \/ updateEmployeeWriteFails
    \/ \E index \in 0..(Len(employees) - 1) : deleteEmployeeWriteFails(index)

SpecQuota == Init /\ [][NextQuota]_vars

\* the handlers of the draft's staging area alone, with two image files, two
\* reads in flight and a selection of two documents
NextDraft ==
    \/ NgOnInit
    \/ \E files \in {<<>>} \cup {<<p>> : p \in PhotoFilesDraft} :
          (files # <<>> => Len(reads) < MaxPendingDraft) /\ OnPhotoSelected(files)
    \/ \E i \in 1..Len(reads) : PhotoLoaded(i)
    \/ removePhoto
    \/ \E files \in DocSelectionsDraft : OnDocsSelected(files)
    \/ \E index \in 0..(Len(docs) - 1) : removeDoc(index)
    \/ \E index \in 0..(Len(employees) - 1) : editEmployee(index)
    \/ Cancel
    \/ Reload

SpecDraft == Init /\ [][NextDraft]_vars

\* formatBytes on its own: a byte count is drawn, and formatted
InitFormat ==
    /\ pc = "constructed"
    /\ form = Undefined
    /\ touched = {}
    /\ employees = <<>>
    /\ editingIndex = Null
    /\ photoPreview = Null
    /\ docs = <<>>
    /\ reads = <<>>
    /\ storage = Null
    /\ raised = FALSE
    /\ lastOp = "constructor"
    /\ persisted = Undefined
    /\ editTarget = Undefined
    /\ sizeView \in {[bytes |-> b, text |-> Undefined] : b \in ByteInputs}

FormatSize ==
    /\ sizeView.text = Undefined
    /\ sizeView' = [sizeView EXCEPT !.text = Str(formatBytes(sizeView.bytes))]
    /\ UNCHANGED <<pc, form, touched, employees, editingIndex, photoPreview, docs,
                   reads, storage, raised, lastOp, persisted, editTarget>>

NextFormat == FormatSize

SpecFormat == InitFormat /\ [][NextFormat]_vars

----------------------------------------------------------------------------
(* Properties *)

\* the draft session is in the "new record" state
DraftIsNew(fv, idx, photo, staged) ==
    /\ idx = Null
    /\ photo = Null
    /\ staged = <<>>
    /\ fv.keys = FormFields
    /\ \A f \in Range(FormFields) :
          fv.get[f] = (IF f \in {"experience", "salary"} THEN Num(0) ELSE Str(<<>>))

\* rec is the record of the draft (fv, photo, staged)
IsRecordOf(rec, fv, photo, staged) ==
    /\ \A f \in Range(FormFields) : Get(rec, f) = fv.get[f]
    /\ Get(rec, "photoDataUrl") = photo
    /\ Get(rec, "documents") = Arr(staged)

\* C1: an accepted addEmployee makes the list one longer, puts the record
\* built from the form values, the photo preview and the staged documents at
\* position 0, and keeps the old records, in order, at positions 1..n.
C1_AddPrepends ==
    [][(addEmployee /\ ~FormInvalid(form)) =>
          /\ Len(employees') = Len(employees) + 1
          /\ IsRecordOf(employees'[1], form, photoPreview, docs)
          /\ \A j \in 1..Len(employees) : employees'[j + 1] = employees[j]]_vars

C1_Witness ==
    /\ lastOp = "addEmployee:accepted"
    /\ Len(employees) = 2
    /\ Get(employees[1], "photoDataUrl") = PhotoA
    /\ employees[2] = StoredRecord

\* C2: with editingIndex = i, an accepted updateEmployee replaces the record
\* at position i by the record of the draft, and changes neither another
\* position nor the length of the list.
C2_UpdateReplacesInPlace ==
    [][(updateEmployee /\ ~FormInvalid(form) /\ editingIndex # Null) =>
          /\ Len(employees') = Len(employees)
          /\ IsRecordOf(At(employees', editingIndex.n), form, photoPreview, docs)
          /\ \A j \in 0..(Len(employees) - 1) :
                j # editingIndex.n => At(employees', j) = At(employees, j)]_vars

C5_WriteThrough ==
    (pc = "ready" /\ persisted # Undefined) =>
        storage = Text(Stringify(Arr(employees)))

C5_Witness ==
    /\ lastOp = "updateEmployee:accepted"
    /\ Len(employees) = 2
    /\ storage = Text(Stringify(Arr(employees)))

\* C6: loadEmployees does not throw and leaves the stored value as it is, and
\* it sets the record list to the empty list when the key is missing, the
\* text is not JSON, or the JSON value is not an array.
C6_LoadFallsBack ==
    [][NgOnInit =>
          /\ raised' = FALSE
          /\ storage' = storage
          /\ (storage \in UnusableStored => employees' = <<>>)]_vars

C6_Witness ==
    /\ lastOp = "ngOnInit"
    /\ storage = Text(<<TGarbage>>)
    /\ employees = <<>>
    /\ ~raised

\* every element of the list is an employee object
IsRecordList(list) == \A j \in 1..Len(list) : list[j].t = "object"

\* C7: a list of records that was saved is, after the next loadEmployees,
\* the in-memory list again, element for element and member for member.
C7_RoundTrip ==
    (/\ lastOp = "ngOnInit"
     /\ persisted # Undefined
     /\ IsRecordList(persisted.items)) =>
        employees = persisted.items

C7_Witness ==
    /\ lastOp = "ngOnInit"
    /\ persisted # Undefined
    /\ Len(persisted.items) = 2
    /\ IsRecordList(persisted.items)
    /\ Get(persisted.items[1], "photoDataUrl") = Null
    /\ Get(persisted.items[1], "documents") = Arr(<<CvFile, CvFile>>)
    /\ persisted.items[2] = StoredRecord
    /\ employees = persisted.items

\* C8: addEmployee or updateEmployee on an invalid form changes neither the
\* record list, the stored value, editingIndex, the photo preview, the staged
\* documents nor the form values, and marks every control as touched.
C8_RejectedSubmission ==
    [][((addEmployee \/ updateEmployee) /\ FormInvalid(form)) =>
          /\ employees' = employees
          /\ storage' = storage
          /\ editingIndex' = editingIndex
          /\ photoPreview' = photoPreview
          /\ docs' = docs
          /\ form' = form
          /\ touched' = Range(FormFields)]_vars

C8_Witness ==
    /\ touched = Range(FormFields)
    /\ form.get["phone"] = Str(Phone5)
    /\ editingIndex = Num(0)
    /\ employees = <<StoredRecord>>
    /\ storage = Text(Stringify(Arr(<<StoredRecord>>)))

\* a phone value of 10 to 15 characters, all of them decimal digits
IsPhoneNumber(v) ==
    /\ v.t = "string"
    /\ Len(v.s) \in 10..15
    /\ \A i \in 1..Len(v.s) : v.s[i] \in {"0", "1", "2", "3", "4", "5", "6", "7", "8", "9"}

\* C9: the record an addEmployee or updateEmployee puts into the list has a
\* phone of 10 to 15 decimal digits; a submission with phone "12345" leaves the
\* list as it is, and addEmployee with phone "1234567890" and the other fields
\* valid changes it.
C9_PhoneGate ==
    [][/\ (addEmployee /\ employees' # employees) =>
             IsPhoneNumber(Get(employees'[1], "phone"))
       /\ (updateEmployee /\ employees' # employees) =>
             IsPhoneNumber(Get(At(employees', editingIndex.n), "phone"))
       /\ ((addEmployee \/ updateEmployee) /\ form.get["phone"] = Str(Phone5)) =>
             employees' = employees
       /\ (/\ addEmployee
           /\ \A f \in DOMAIN ValidEntry : form.get[f] = ValidEntry[f]
           /\ form.get["experience"] = Num(0)) =>
             employees' # employees]_vars

C9_Witness ==
    /\ lastOp = "addEmployee:accepted"
    /\ Get(employees[1], "phone") = Str(Phone10)
    /\ touched = {}

\* C10: while editingIndex = i is not none, the record at position i is the
\* record the editEmployee call that set editingIndex loaded into the draft.
C10_NoRetarget ==
    editingIndex # Null => At(employees, editingIndex.n) = editTarget

\* v is a number that is not negative
NonNegative(v) == v.t = "number" /\ v.n >= 0

C12_OutOfRangeIsNoOp ==
    [][/\ (/\ updateEmployee
           /\ ~FormInvalid(form)
           /\ editingIndex # Null
           /\ (editingIndex.n < 0 \/ editingIndex.n >= Len(employees))) =>
             employees' = employees
       /\ deleteEmployee(Len(employees)) => employees' = employees]_vars

DraftStep ==
    \/ \E files \in {<<>>} \cup {<<p>> : p \in PhotoFilesDraft} : OnPhotoSelected(files)
    \/ \E i \in 1..Len(reads) : PhotoLoaded(i)
    \/ removePhoto
    \/ \E files \in DocSelectionsDraft : OnDocsSelected(files)
    \/ \E index \in 0..(Len(docs) - 1) : removeDoc(index)
    \/ \E index \in 0..(Len(employees) - 1) : editEmployee(index)
    \/ Cancel

\* C14: selecting or removing the photo, a photo read's completion, adding or
\* removing staged documents, editEmployee and resetForm change neither the
\* record list nor the stored text; in particular the record under edit keeps
\* its members, the documents among them, whatever is staged or reset.
C14_DraftIsStaged ==
    [][DraftStep =>
          /\ employees' = employees
          /\ storage' = storage
          /\ (editingIndex # Null /\ At(employees, editingIndex.n) = editTarget) =>
                At(employees', editingIndex.n) = editTarget]_vars

C14_Witness ==
    /\ editingIndex = Num(0)
    /\ Len(employees) = 1
    /\ employees[1] = editTarget
    /\ Get(employees[1], "documents") = Arr(<<CvFile>>)
    /\ Get(employees[1], "photoDataUrl") = Null
    /\ storage = Text(Stringify(Arr(employees)))
    /\ docs = <<>>
    /\ photoPreview = PhotoA

\* the member is missing from the record or null
Absent(rec, key) == Get(rec, key) \in {Null, Undefined}

\* C15: editEmployee(i) on a record copies the record's members into the form
\* controls, with "" for an absent or null email, religion or lastWorkPlace,
\* makes the record's photo the photo preview (null when absent), the record's
\* documents the staged documents (none when absent) and i the editingIndex;
\* where position i holds no record, nothing of the component's state changes.
C15_EditLoadsRecord ==
    [][\A i \in 0..(Len(employees) - 1) :
          editEmployee(i) =>
             LET emp == At(employees, i)
             IN IF emp \in {Null, Undefined}
                THEN UNCHANGED <<form, touched, employees, editingIndex, photoPreview,
                                 docs, reads, storage>>
                ELSE /\ \A f \in Range(FormFields) :
                           form'.get[f] =
                              (IF f \in {"email", "religion", "lastWorkPlace"}
                                  /\ Absent(emp, f)
                               THEN Str(<<>>) ELSE Get(emp, f))
                     /\ photoPreview' =
                           (IF Absent(emp, "photoDataUrl") THEN Null
                            ELSE Get(emp, "photoDataUrl"))
                     /\ docs' =
                           (IF Absent(emp, "documents") THEN <<>>
                            ELSE Get(emp, "documents").items)
                     /\ editingIndex' = Num(i)]_vars

C15_Witness ==
    /\ lastOp = "editEmployee"
    /\ editingIndex = Num(1)
    /\ employees[2] = StoredRecord
    /\ form.get["email"] = Str(<<>>)
    /\ form.get["religion"] = Str(<<>>)
    /\ form.get["name"] = ValidEntry.name
    /\ photoPreview = Null
    /\ docs = <<>>
    /\ Get(employees[1], "photoDataUrl") = PhotoA

\* C16: onDocsSelected with a selection of files makes the staged list the
\* previous staged list followed by one {name, size} descriptor per selected
\* file, in selection order, also for a file that is staged already; with
\* nothing selected the staged list stays as it is.
C16_DocsAppended ==
    [][\A files \in DocSelectionsDraft :
          OnDocsSelected(files) =>
             /\ Len(docs') = Len(docs) + Len(files)
             /\ \A j \in 1..Len(docs) : docs'[j] = docs[j]
             /\ \A j \in 1..Len(files) :
                   /\ docs'[Len(docs) + j].keys = <<"name", "size">>
                   /\ Get(docs'[Len(docs) + j], "name") = Get(files[j], "name")
                   /\ Get(docs'[Len(docs) + j], "size") = Get(files[j], "size")]_vars

C16_Witness ==
    /\ docs = <<CvFile, CvFile>>
    /\ employees = <<StoredRecord>>
    /\ editingIndex = Num(0)

\* C17: onPhotoSelected leaves the photo preview as it is, and the completion
\* of a read makes that read's data the photo preview, whichever of the reads
\* in flight it is: the preview is the data of the read that completed last,
\* in whatever order the files were selected.
C17_LastCompletionWins ==
    [][/\ \A files \in {<<>>} \cup {<<p>> : p \in PhotoFilesDraft} :
             OnPhotoSelected(files) => photoPreview' = photoPreview
       /\ \A i \in 1..Len(reads) :
             PhotoLoaded(i) =>
                /\ photoPreview' = reads[i]
                /\ Len(reads') = Len(reads) - 1]_vars

\* PhotoA was selected before PhotoB, and PhotoB's read has completed first
C17_Witness ==
    /\ lastOp = "onload:overtaking"
    /\ reads = <<PhotoA>>
    /\ photoPreview = PhotoB

\* C18: a read that was in flight when the draft was reset (accepted
\* submission or cancel) or when editEmployee loaded a record does not change
\* the photo preview when it completes, so that no later record carries a
\* photo selected for an earlier draft.
C18_NoLeakAcrossDrafts ==
    [][(/\ lastOp \in {"addEmployee:accepted", "updateEmployee:accepted",
                       "resetForm", "editEmployee"}
        /\ \E i \in 1..Len(reads) : PhotoLoaded(i)) =>
          photoPreview' = photoPreview]_vars

\* C19: when the storage write of a create, update or delete on a valid form
\* fails, the in-memory list holds the updated list (the new record in front,
\* the record of the draft at editingIndex, or one record less), the stored
\* text is the one from before the call, and the handler has thrown.
C19_FailedWriteKeepsMemory ==
    [][/\ addEmployeeWriteFails =>
             /\ Len(employees') = Len(employees) + 1
             /\ IsRecordOf(employees'[1], form, photoPreview, docs)
             /\ storage' = storage
             /\ raised'
       /\ updateEmployeeWriteFails =>
             /\ IsRecordOf(At(employees', editingIndex.n), form, photoPreview, docs)
             /\ storage' = storage
             /\ raised'
       /\ \A i \in 0..(Len(employees) - 1) :
             deleteEmployeeWriteFails(i) =>
                /\ Len(employees') = Len(employees) - 1
                /\ storage' = storage
                /\ raised']_vars

C19_Witness ==
    /\ lastOp = "deleteEmployee:writeFailed"
    /\ raised
    /\ employees = <<StoredRecord>>
    /\ persisted # Undefined
    /\ Len(persisted.items) = 2
    /\ storage = Text(Stringify(persisted))

\* digit j, lowest first, of the natural number with the base-1024 digits a
BigDigit(a, j) == IF j \in 1..Len(a) THEN a[j] ELSE 0

RECURSIVE CarryInto(_, _, _, _)
\* the carry into digit j of a * m + b
CarryInto(a, m, b, j) ==
    IF j = 1 THEN 0
    ELSE (BigDigit(a, j - 1) * m + BigDigit(b, j - 1) + CarryInto(a, m, b, j - 1))
            \div Kilo

\* digit j of a * m + b
MulAddDigit(a, m, b, j) ==
    (BigDigit(a, j) * m + BigDigit(b, j) + CarryInto(a, m, b, j)) % Kilo

\* the digits of 1024^i / 2, i >= 1
HalfUnit(i) == [j \in 1..i |-> IF j = i THEN Kilo \div 2 ELSE 0]

\* n / 1024^i in units of 10^-d, to the nearest unit, a half counting upward:
\* floor((10^d * n + 1024^i / 2) / 1024^i), for 1024^i <= n < 1024^(i+1)
NearestScaled(n, i, d) ==
    IF i = 0 THEN n[1]
    ELSE LET m == IF d = 1 THEN 10 ELSE 1
         IN MulAddDigit(n, m, HalfUnit(i), i + 1)
            + Kilo * MulAddDigit(n, m, HalfUnit(i), i + 2)

\* the value part of the text: n scaled by the largest power of 1024 not above
\* it, with no decimals when the scaled value is 10 or more or the unit is
\* bytes, and with one decimal otherwise
ScaledText(n) ==
    LET i == Len(n) - 1
        d == IF n[i + 1] >= 10 \/ i = 0 THEN 0 ELSE 1
    IN ToFixedText(NearestScaled(n, i, d), d)

================================================================
